---- MODULE Spec2Model ----
(***************************************************************************)
(* keystone_limits: the Turnstile preprocessor for Keystone                *)
(* (keystone_preprocess), the KeystoneClassLimit rule (route, filter) and  *)
(* the administrative operation _limit_class, as state machines over the   *)
(* shared key-value store.                                                 *)
(*                                                                         *)
(* Store keys, principal keys and URIs handed to route are sequences of    *)
(* one-character strings, so that find, startswith and slicing are         *)
(* computed as the code computes them.  Python's None is the value None.   *)
(***************************************************************************)
EXTENDS Integers, Sequences, FiniteSets, TLC

VARIABLES
    db,               \* midware.db: the store, a function key -> value
    midware_limits,   \* midware.limits: the configured rules
    pc,               \* position of the request in keystone_preprocess
    environ,          \* the request environment
    klass,            \* local klass of keystone_preprocess
    buckets,          \* local buckets: uuid -> list of bucket keys
    limits,           \* local limits: the quota-status rows
    actions,          \* the store calls of the current request, in order
    observed,         \* what the request saw: store entry before, get results, time
    autoprov,         \* principals auto-provisioned and not administered since
    admin,            \* the last _limit_class call: arguments, result, calls
    route_uri,        \* argument of the last KeystoneClassLimit.route call
    route_result,     \* its result
    flt,              \* the last KeystoneClassLimit.filter call
    procs,            \* concurrent requests: position, id_ip, klass of each
    tool,             \* a _limit_class call in steps: position, tenant, klass, old_klass
    fresh,            \* interleaved calls: principals unseen at the start, never administered
    override          \* tenant -> class its last completed _limit_class call set

vars == <<db, midware_limits, pc, environ, klass, buckets, limits, actions,
          observed, autoprov, admin, route_uri, route_result, flt,
          procs, tool, fresh, override>>

preVars == <<db, midware_limits, pc, environ, klass, buckets, limits, actions,
             observed, autoprov, admin>>
routeVars == <<route_uri, route_result>>
concVars == <<procs, tool, fresh, override>>

None == "None"

-----------------------------------------------------------------------------
(* Strings as sequences of characters *)

\* s[i:] of Python, i counted from 0
Drop(s, i) == SubSeq(s, i + 1, Len(s))

\* s[i:j] of Python
Slice(s, i, j) == SubSeq(s, i + 1, j)

\* s.startswith(p)
StartsWith(s, p) == Len(s) >= Len(p) /\ SubSeq(s, 1, Len(p)) = p

\* s.find(c): the 0-based index of the first c, or -1
Find(s, c) ==
    IF \E i \in 1..Len(s) : s[i] = c
    THEN (CHOOSE i \in 1..Len(s) : s[i] = c /\ \A j \in 1..(i - 1) : s[j] # c) - 1
    ELSE -1

RECURSIVE Join(_)
\* the characters of s as one string
Join(s) == IF s = <<>> THEN "" ELSE s[1] \o Join(Tail(s))

RECURSIVE Flatten(_)
\* the concatenation of a sequence of sequences
Flatten(ss) == IF ss = <<>> THEN <<>> ELSE ss[1] \o Flatten(Tail(ss))

\* the injective sequences enumerating the finite set S
Perms(S) ==
    {s \in [1..Cardinality(S) -> S] :
        \A i, j \in 1..Cardinality(S) : s[i] = s[j] => i = j}

-----------------------------------------------------------------------------
(* The store *)

\* db.get(key)
Get(d, key) == IF key \in DOMAIN d THEN d[key] ELSE None

\* db.set(key, value)
Set(d, key, value) == [k \in DOMAIN d \cup {key} |-> IF k = key THEN value ELSE d[k]]

\* db.delete(key)
Delete(d, key) == [k \in DOMAIN d \ {key} |-> d[k]]

LimitClassPrefix == <<"l", "i", "m", "i", "t", "-", "c", "l", "a", "s", "s", ":">>
BucketPrefix == <<"b", "u", "c", "k", "e", "t", ":">>

\* db.keys('bucket:*'): the keys matching the pattern
Keys(d) == {k \in DOMAIN d : StartsWith(k, BucketPrefix)}

\* Python truthiness of a value read from the store: None and '' are false
Falsy(v) == v = None \/ v = ""

-----------------------------------------------------------------------------
(* Configuration and inputs *)

IpClass == "ip-class"
Classes == {IpClass, "gold"}

UuidA == <<"a">>
UuidAB == <<"a", "b">>

Lit(s) == [kind |-> "lit", s |-> s]
Field(s) == [kind |-> "field", s |-> s]

\* The configured rules.  A rule without the key "rate_class" has no
\* rate_class attribute; a rule with verbs <<>> declares no verbs.
RuleIp ==
    [uuid |-> UuidA, uri |-> <<Lit("/spam")>>, verbs |-> <<>>, value |-> 10,
     unit |-> "minute", queries |-> {"x"}, rate_class |-> IpClass]
RuleGold ==
    [uuid |-> UuidAB, uri |-> <<Lit("/eggs/"), Field("x")>>, verbs |-> <<"GET">>,
     value |-> 18, unit |-> "second", queries |-> {}, rate_class |-> "gold"]
RuleAny ==
    [uuid |-> UuidA, uri |-> <<Lit("/ham")>>, verbs |-> <<"GET", "POST">>,
     value |-> 7, unit |-> "60", queries |-> {"y", "x"}]

\* midware.limits: the configurations, rules with distinct uuids and uris
Configs == { <<RuleIp, RuleGold>>, <<RuleGold, RuleAny>>, <<RuleAny>> }

HasRateClass(rule) == "rate_class" \in DOMAIN rule

\* The bucket keys the store may hold: bucket:a, bucket:a/x=1, bucket:ab/x=1
BucketKeys ==
    { BucketPrefix \o UuidA,
      BucketPrefix \o UuidA \o <<"/", "x", "=", "1">>,
      BucketPrefix \o UuidAB \o <<"/", "x", "=", "1">> }

\* Stored bucket payloads
Payloads ==
    { [messages |-> 2, expire |-> 11],
      [messages |-> 5, expire |-> 13] }

\* Values of time.time()
Times == {9, 10}

RemoteAddr == <<"1", "2", "7", ".", "0", ".", "0", ".", "1">>
UserOne == <<"1">>
Username == <<"b", "o", "b">>

\* '%s:%s' % (user_id, user_ip)
IdIp(user_id, user_ip) == user_id \o <<":">> \o user_ip

\* 'limit-class:' + id_ip
ClassKey(id_ip) == LimitClassPrefix \o id_ip

Principals == {IdIp(UserOne, RemoteAddr), IdIp(Username, RemoteAddr)}

\* openstack.context: without a token id, with an empty one, with one.
\* A request with a token id carries no password credentials.
TokenContext == [k \in {"token_id"} |-> "tokenid"]
Contexts == { [k \in {} |-> ""], [k \in {"token_id"} |-> ""], TokenContext }

\* A request environment: the context, the remote address, the password
\* credentials' username when with_params, and the class an earlier stage
\* assigned when carried is not None
RequestEnv(context, with_params, carried) ==
    LET base == [k \in {"openstack.context", "REMOTE_ADDR"} |->
                    IF k = "REMOTE_ADDR" THEN RemoteAddr ELSE context]
        p == IF with_params THEN [k \in {"openstack.params"} |-> Username]
             ELSE [k \in {} |-> Username]
        c == IF carried # None THEN [k \in {"turnstile.keystone.limitclass"} |-> carried]
             ELSE [k \in {} |-> carried]
    IN  base @@ p @@ c

\* What the identity service answers: token.Manager().get_token and
\* identity.Manager().get_user_by_name, found or not found
TokenResults == {[found |-> TRUE, id |-> UserOne], [found |-> FALSE, id |-> <<>>]}
NameResults == {[found |-> TRUE, id |-> UserOne], [found |-> FALSE, id |-> <<>>]}

-----------------------------------------------------------------------------
(* keystone_preprocess: identity and class *)

\* Lines 105-123.  The token lookup is not guarded: when it finds no token
\* the exception (or the subscript of its empty answer) leaves the handler.
\* So does the KeyError of a request with neither token nor credentials.
ResolveUser(env, tok, byname) ==
    LET context == env["openstack.context"]
        has_token == "token_id" \in DOMAIN context /\ context["token_id"] # ""
    IN  IF has_token
        THEN IF tok.found THEN [raised |-> FALSE, user_id |-> tok.id]
             ELSE [raised |-> TRUE, user_id |-> <<>>]
        ELSE IF "openstack.params" \notin DOMAIN env
             THEN [raised |-> TRUE, user_id |-> <<>>]
             ELSE IF byname.found THEN [raised |-> FALSE, user_id |-> byname.id]
                  ELSE [raised |-> FALSE, user_id |-> env["openstack.params"]]

\* Mutant of SetDefault: the value replaces the one the environment holds
SetDefault_Overrides(env, key, value) ==
    [k \in DOMAIN env \cup {key} |-> IF k = key THEN value ELSE env[k]]

\* environ.setdefault(key, value): the environment after the call
SetDefault(env, key, value) ==
    IF key \in DOMAIN env THEN env ELSE env @@ [k \in {key} |-> value]

\* Mutant of ResolveClass: the class is written on every request
ResolveClass_AlwaysSets(d, env, id_ip) ==
    LET key == ClassKey(id_ip)
        got == Get(d, key)
        k == IF Falsy(got) THEN IpClass ELSE got
        env2 == SetDefault(env, "turnstile.keystone.limitclass", k)
    IN  [db |-> Set(d, key, k),
         actions |-> << <<"get", key>>, <<"set", key, k>> >>,
         environ |-> env2, klass |-> env2["turnstile.keystone.limitclass"]]

\* Mutant of ResolveClass: the class written is the request's class
ResolveClass_StoresRequestClass(d, env, id_ip) ==
    LET key == ClassKey(id_ip)
        got == Get(d, key)
        env2 == SetDefault(env, "turnstile.keystone.limitclass",
                           IF Falsy(got) THEN IpClass ELSE got)
        k == env2["turnstile.keystone.limitclass"]
    IN  [db |-> IF Falsy(got) THEN Set(d, key, k) ELSE d,
         actions |-> IF Falsy(got) THEN << <<"get", key>>, <<"set", key, k>> >>
                     ELSE << <<"get", key>> >>,
         environ |-> env2, klass |-> k]

\* Lines 132-139: the class of the principal id_ip over store d and
\* environment env; the store, the store calls and the environment after
ResolveClass(d, env, id_ip) ==
    LET key == ClassKey(id_ip)
        got == Get(d, key)
        d2 == IF Falsy(got) THEN Set(d, key, IpClass) ELSE d
        acts == IF Falsy(got) THEN << <<"get", key>>, <<"set", key, IpClass>> >>
                ELSE << <<"get", key>> >>
        k == IF Falsy(got) THEN IpClass ELSE got
        env2 == SetDefault(env, "turnstile.keystone.limitclass", k)
    IN  [db |-> d2, actions |-> acts, environ |-> env2,
         klass |-> env2["turnstile.keystone.limitclass"]]

\* Lines 153-157: the uuid part of a bucket key
UuidOf(key) ==
    LET idx == Find(key, "/")
    IN  IF idx >= 0 THEN Slice(key, 7, idx) ELSE Drop(key, 7)

\* Mutant of BucketIndex: a uuid's keys are those that begin with it
BucketIndex_ByPrefix(keys) ==
    [u \in {UuidOf(keys[i]) : i \in 1..Len(keys)} |->
        SelectSeq(keys, LAMBDA k : StartsWith(Drop(k, 7), u))]

\* Lines 150-161: the enumerated keys, in the order the store gave them,
\* indexed by uuid
BucketIndex(keys) ==
    [u \in {UuidOf(keys[i]) : i \in 1..Len(keys)} |->
        SelectSeq(keys, LAMBDA k : UuidOf(k) = u)]

NoAdmin == [tenant |-> <<>>, klass |-> None, result |-> None, before |-> None,
            actions |-> <<>>]

\* What a request observed: the token lookup's answer, the principal's store
\* entry and carried class before class resolution, whether the principal was
\* auto-provisioned earlier, the enumerated keys found gone, the time read
NoObservation == [token |-> "none", entry |-> None, carried |-> None, seen |-> FALSE,
                  id_ip |-> <<>>, gone |-> {}, time |-> 0, request |-> <<>>,
                  keys |-> {}]

\* Lines 107-108, 123: the answer of the token lookup, when it is asked
TokenOutcome(env, tok) ==
    LET context == env["openstack.context"]
    IN  IF "token_id" \in DOMAIN context /\ context["token_id"] # ""
        THEN IF tok.found THEN "found" ELSE "notfound"
        ELSE "none"

\* keystone_preprocess, lines 105-161: from the request to the bucket index
PreprocessStart ==
    /\ pc = "idle"
    /\ \E context \in Contexts, carried \in Classes \cup {None},
          tok \in TokenResults, byname \in NameResults :
        \E with_params \in IF context = TokenContext THEN {FALSE} ELSE BOOLEAN :
        LET env == RequestEnv(context, with_params, carried)
            u == ResolveUser(env, tok, byname)
        IN  IF u.raised
            THEN /\ pc' = "raised"
                 /\ environ' = env
                 /\ klass' = None
                 /\ buckets' = <<>>
                 /\ actions' = <<>>
                 /\ observed' = [NoObservation EXCEPT !.token = TokenOutcome(env, tok),
                                                       !.request = env]
                 /\ UNCHANGED <<db, autoprov>>
            ELSE LET id_ip == IdIp(u.user_id, env["REMOTE_ADDR"])
                     env1 == [k \in DOMAIN env \cup {"turnstile.keystone.user_id"} |->
                                 IF k = "turnstile.keystone.user_id" THEN id_ip ELSE env[k]]
                     r == ResolveClass(db, env1, id_ip)
                 IN  \E order \in Perms(Keys(r.db)) :
                        /\ pc' = "enumerated"
                        /\ environ' = r.environ
                        /\ klass' = r.klass
                        /\ db' = r.db
                        /\ buckets' = BucketIndex(order)
                        /\ actions' = r.actions \o << <<"keys", "bucket:*">> >>
                        /\ observed' = [token |-> TokenOutcome(env, tok),
                                        entry |-> Get(db, ClassKey(id_ip)),
                                        carried |-> carried,
                                        seen |-> id_ip \in autoprov,
                                        id_ip |-> id_ip, gone |-> {}, time |-> 0,
                                        request |-> env, keys |-> Keys(r.db)]
                        /\ autoprov' = IF Get(db, ClassKey(id_ip)) = None
                                       THEN autoprov \cup {id_ip} ELSE autoprov
    /\ UNCHANGED <<midware_limits, limits, admin, route_uri, route_result, flt, concVars>>

-----------------------------------------------------------------------------
(* keystone_preprocess: the quota-status listing *)

DefaultVerbs == <<"GET", "HEAD", "POST", "PUT", "DELETE">>

\* The query names the rules use, in lexicographic order
QueryNames == <<"x", "y">>

\* sorted(turns_lim.queries)
Sorted(queries) == SelectSeq(QueryNames, LAMBDA q : q \in queries)

\* turns_lim.decode(key): the parameters after the first '/', name=value
Decode(key) ==
    LET idx == Find(key, "/")
        p == Drop(key, idx + 1)
        eq == Find(p, "=")
    IN  IF idx < 0 \/ eq < 0 THEN [k \in {} |-> ""]
        ELSE [k \in {Join(Slice(p, 0, eq))} |-> Join(Drop(p, eq + 1))]

\* bucket_class.hydrate(db, msgpack.loads(raw), limit, key): messages, expire
Hydrate(raw) == [messages |-> raw.messages, expire |-> raw.expire]

\* Mutant of Matches: the rule's rate_class is not looked at
Matches_AnyClass(rule, k) == k = k

\* Line 171: the rule is listed for the class k
Matches(rule, k) == (IF HasRateClass(rule) THEN rule.rate_class ELSE k) = k

\* Mutant of BuckList: a key without payload counts as an exhausted bucket
BuckList_ZeroForMissing(rule, index, d) ==
    LET keys == IF rule.uuid \in DOMAIN index THEN index[rule.uuid] ELSE <<>>
    IN  [i \in 1..Len(keys) |->
            [params |-> Decode(keys[i]),
             bucket |-> IF keys[i] \in DOMAIN d THEN Hydrate(d[keys[i]])
                        ELSE [messages |-> 0, expire |-> 0]]]

\* Lines 175-187: the (params, bucket) pairs of the rule's enumerated keys
\* whose payload the store d still holds
BuckList(rule, index, d) ==
    LET keys == IF rule.uuid \in DOMAIN index THEN index[rule.uuid] ELSE <<>>
        live == SelectSeq(keys, LAMBDA k : k \in DOMAIN d)
    IN  [i \in 1..Len(live) |->
            [params |-> Decode(live[i]), bucket |-> Hydrate(d[live[i]])]]

\* Lines 176-178: the gets issued for the rule
BuckGets(rule, index) ==
    LET keys == IF rule.uuid \in DOMAIN index THEN index[rule.uuid] ELSE <<>>
    IN  [i \in 1..Len(keys) |-> <<"get", keys[i]>>]

\* Lines 190-194: the uri, with the sorted queries as placeholders
Uri(rule) ==
    LET qs == Sorted(rule.queries)
        one(i) == (IF i > 1 THEN <<Lit("&")>> ELSE <<>>)
                  \o <<Lit(qs[i] \o "="), Field(qs[i])>>
    IN  IF rule.queries # {}
        THEN rule.uri \o <<Lit("?")>> \o Flatten([i \in 1..Len(qs) |-> one(i)])
        ELSE rule.uri

\* fmt.vformat(uri, (), params) over a ParamsDict: a known field becomes
\* its value, an unknown one stays '{name}'
VFormat(uri, params) ==
    [i \in 1..Len(uri) |->
        IF uri[i].kind = "field" /\ uri[i].s \in DOMAIN params
        THEN Lit(params[uri[i].s]) ELSE uri[i]]

RECURSIVE Render(_)
\* the text of a uri
Render(uri) ==
    IF uri = <<>> THEN ""
    ELSE (IF uri[1].kind = "field" THEN "{" \o uri[1].s \o "}" ELSE uri[1].s)
         \o Render(Tail(uri))

\* Lines 198-200
Unit(rule) ==
    LET upper == [u \in {"minute", "second", "60"} |->
                    IF u = "minute" THEN "MINUTE" ELSE IF u = "second" THEN "SECOND" ELSE "60"]
        unit == upper[rule.unit]
    IN  IF unit = "60" THEN "UNKNOWN" ELSE unit

Min(S) == CHOOSE x \in S : \A y \in S : x <= y
Max(S) == CHOOSE x \in S : \A y \in S : x >= y

\* Lines 204, 207
Remaining(rule, buck_list) ==
    IF buck_list # <<>>
    THEN Min({buck_list[i].bucket.messages : i \in 1..Len(buck_list)})
    ELSE rule.value

\* Mutant of ResetTime: the expiry of the bucket with the fewest messages
ResetTime_OfMinBucket(buck_list, t) ==
    IF buck_list # <<>>
    THEN LET i == CHOOSE i \in 1..Len(buck_list) :
                    \A j \in 1..Len(buck_list) :
                        buck_list[i].bucket.messages <= buck_list[j].bucket.messages
         IN  buck_list[i].bucket.expire
    ELSE t

\* Lines 205, 208
ResetTime(buck_list, t) ==
    IF buck_list # <<>>
    THEN Max({buck_list[i].bucket.expire : i \in 1..Len(buck_list)})
    ELSE t

Row(verb, uri, rule, remaining, resetTime) ==
    [verb |-> verb, URI |-> uri, regex |-> uri, value |-> rule.value,
     unit |-> Unit(rule), remaining |-> remaining, resetTime |-> resetTime]

\* Line 197
Verbs(rule) == IF rule.verbs # <<>> THEN rule.verbs ELSE DefaultVerbs

\* Mutant of Expanded: a single bucket is listed as well
Expanded_FromOne(buck_list) == Len(buck_list) >= 1

\* Line 212: the rule's buckets are listed one by one
Expanded(buck_list) == Len(buck_list) > 1

\* Lines 211-238: the rows of one rule
RuleRows(rule, buck_list, t) ==
    LET uri == Uri(rule)
        verbs == Verbs(rule)
        each(verb) ==
            (IF Expanded(buck_list)
             THEN [j \in 1..Len(buck_list) |->
                     Row(verb, Render(VFormat(uri, buck_list[j].params)), rule,
                         buck_list[j].bucket.messages, buck_list[j].bucket.expire)]
             ELSE <<>>)
            \o <<Row(verb, Render(uri), rule,
                     Remaining(rule, buck_list), ResetTime(buck_list, t))>>
    IN  Flatten([i \in 1..Len(verbs) |-> each(verbs[i])])

\* Lines 165-238: the listing over the rules, the bucket index, the store
\* at fetch time and the time
BuildLimits(rules, k, index, d, t) ==
    Flatten([i \in 1..Len(rules) |->
        IF Matches(rules[i], k)
        THEN RuleRows(rules[i], BuckList(rules[i], index, d), t)
        ELSE <<>>])

\* The gets of the listing, in order
FetchActions(rules, k, index) ==
    Flatten([i \in 1..Len(rules) |->
        IF Matches(rules[i], k) THEN BuckGets(rules[i], index) ELSE <<>>])

\* The keys of a bucket index
IndexKeys(index) == UNION {{index[u][i] : i \in 1..Len(index[u])} : u \in DOMAIN index}

\* Line 208 is reached: some listed rule has no live bucket
ReadsTime(rules, k, index, d) ==
    \E i \in 1..Len(rules) :
        Matches(rules[i], k) /\ BuckList(rules[i], index, d) = <<>>

\* Mutant of LogLimits: the rows are also handed on in the environment
LogLimits_InEnviron(env, rows) ==
    [k \in DOMAIN env \cup {"turnstile.keystone.limits"} |->
        IF k = "turnstile.keystone.limits" THEN rows ELSE env[k]]

\* Line 240: the rows are logged; the environment is not written
LogLimits(env, rows) == env

\* keystone_preprocess, lines 165-240: fetch the buckets, build the rows.
\* time.time() is read only for a rule without live buckets.
PreprocessFinish ==
    /\ pc = "enumerated"
    /\ \E t \in IF ReadsTime(midware_limits, klass, buckets, db) THEN Times ELSE {0} :
        /\ limits' = BuildLimits(midware_limits, klass, buckets, db, t)
        /\ observed' = [observed EXCEPT !.gone = IndexKeys(buckets) \ DOMAIN db,
                                        !.time = t]
    /\ actions' = actions \o FetchActions(midware_limits, klass, buckets)
    /\ pc' = "done"
    /\ UNCHANGED <<db, midware_limits, klass, buckets, autoprov, admin,
                   route_uri, route_result, flt, concVars>>
    /\ environ' = LogLimits(environ, limits')

\* A bucket expires in the store (server-side expiry) between the request's
\* enumeration and its fetch; at other times the stores Init draws from
\* cover it
Expire ==
    /\ pc = "enumerated"
    /\ \E key \in Keys(db) : db' = Delete(db, key)
    /\ UNCHANGED <<midware_limits, pc, environ, klass, buckets, limits, actions,
                   observed, autoprov, admin, route_uri, route_result, flt, concVars>>

-----------------------------------------------------------------------------
(* _limit_class *)

Default == "default"

\* Mutant of LimitClassDb: 'default' is stored like any other class
LimitClassDb_StoresDefault(d, tenant, k) ==
    LET key == ClassKey(tenant)
        old_klass == IF Falsy(Get(d, key)) THEN Default ELSE Get(d, key)
    IN  IF ~Falsy(k) /\ k # old_klass THEN Set(d, key, k) ELSE d

\* Lines 340-354: the store after the call
LimitClassDb(d, tenant, k) ==
    LET key == ClassKey(tenant)
        old_klass == IF Falsy(Get(d, key)) THEN Default ELSE Get(d, key)
    IN  IF ~Falsy(k) /\ k # old_klass
        THEN IF k = Default THEN Delete(d, key) ELSE Set(d, key, k)
        ELSE d

\* Line 343
OldKlass(d, tenant) ==
    IF Falsy(Get(d, ClassKey(tenant))) THEN Default ELSE Get(d, ClassKey(tenant))

\* The store calls of _limit_class
LimitClassActions(d, tenant, k) ==
    LET key == ClassKey(tenant)
    IN  << <<"get", key>> >> \o
        (IF ~Falsy(k) /\ k # OldKlass(d, tenant)
         THEN IF k = Default THEN << <<"delete", key>> >> ELSE << <<"set", key, k>> >>
         ELSE <<>>)

\* _limit_class(config, tenant, klass), called while no request is in flight
LimitClass ==
    /\ pc = "idle"
    /\ pc' = "returned"
    /\ \E tenant \in Principals, k \in Classes \cup {None, Default} :
        /\ db' = LimitClassDb(db, tenant, k)
        /\ admin' = [tenant |-> tenant, klass |-> k, result |-> OldKlass(db, tenant),
                     before |-> Get(db, ClassKey(tenant)),
                     actions |-> LimitClassActions(db, tenant, k)]
        /\ autoprov' = autoprov \ {tenant}
    /\ UNCHANGED <<midware_limits, environ, klass, buckets, limits, actions,
                   observed, route_uri, route_result, flt, concVars>>

\* The call is over (keystone_preprocess returned or raised, _limit_class
\* returned): its locals and its request are gone, the store stays
Return ==
    /\ pc \in {"done", "raised", "returned"}
    /\ pc' = "idle"
    /\ environ' = <<>>
    /\ klass' = None
    /\ buckets' = <<>>
    /\ limits' = <<>>
    /\ actions' = <<>>
    /\ observed' = NoObservation
    /\ admin' = NoAdmin
    /\ UNCHANGED <<db, midware_limits, autoprov, route_uri, route_result, flt, concVars>>

-----------------------------------------------------------------------------
(* Class resolution and _limit_class as interleaved store calls *)

\* The number of requests in flight at once
NRequests == 2

Requests == 1..NRequests

\* A request outside lines 132-137; got is what its db.get returned
IdleRequest == [pc |-> "idle", id_ip |-> <<>>, got |-> None, klass |-> None]

\* No _limit_class call in progress
NoTool == [pc |-> "idle", tenant |-> <<>>, klass |-> None, old_klass |-> None]

\* Line 132: request r reads its principal's class
PreprocessGet(r) ==
    /\ procs[r].pc = "idle"
    /\ \E id_ip \in Principals :
        procs' = [procs EXCEPT ![r] =
                     [pc |-> "got", id_ip |-> id_ip,
                      got |-> Get(db, ClassKey(id_ip)),
                      klass |-> Get(db, ClassKey(id_ip))]]
    /\ UNCHANGED <<preVars, routeVars, flt, tool, fresh, override>>

\* Mutant of AutoProvision: the write flips the entry
AutoProvision_Toggles(d, id_ip, k) ==
    IF Falsy(k)
    THEN IF ClassKey(id_ip) \in DOMAIN d THEN Delete(d, ClassKey(id_ip))
         ELSE Set(d, ClassKey(id_ip), IpClass)
    ELSE d

\* Lines 135-136: the store after the request's write, k being what it read
AutoProvision(d, id_ip, k) ==
    IF Falsy(k) THEN Set(d, ClassKey(id_ip), IpClass) ELSE d

\* Lines 135-137: request r acts on what it read
PreprocessSet(r) ==
    /\ procs[r].pc = "got"
    /\ db' = AutoProvision(db, procs[r].id_ip, procs[r].klass)
    /\ procs' = [procs EXCEPT ![r].pc = "resolved",
                              ![r].klass = IF Falsy(@) THEN IpClass ELSE @]
    /\ UNCHANGED <<midware_limits, pc, environ, klass, buckets, limits, actions,
                   observed, autoprov, admin, routeVars, flt, tool, fresh, override>>

\* Request r is over
PreprocessReturn(r) ==
    /\ procs[r].pc = "resolved"
    /\ procs' = [procs EXCEPT ![r] = IdleRequest]
    /\ UNCHANGED <<preVars, routeVars, flt, tool, fresh, override>>

\* Line 343: _limit_class reads the tenant's class
LimitClassGet ==
    /\ tool.pc = "idle"
    /\ \E tenant \in Principals, k \in Classes \cup {None, Default} :
        /\ tool' = [pc |-> "got", tenant |-> tenant, klass |-> k,
                    old_klass |-> OldKlass(db, tenant)]
        /\ fresh' = fresh \ {tenant}
        /\ override' = [t \in DOMAIN override \ {tenant} |-> override[t]]
    /\ UNCHANGED <<preVars, routeVars, flt, procs>>

\* Lines 346-352: the store after the call's write, old_klass being what it read
LimitClassWrite(d, tenant, k, old_klass) ==
    IF ~Falsy(k) /\ k # old_klass
    THEN IF k = Default THEN Delete(d, ClassKey(tenant)) ELSE Set(d, ClassKey(tenant), k)
    ELSE d

\* Lines 346-354: _limit_class acts on what it read and returns
LimitClassSet ==
    /\ tool.pc = "got"
    /\ db' = LimitClassWrite(db, tool.tenant, tool.klass, tool.old_klass)
    /\ tool' = [tool EXCEPT !.pc = "returned"]
    /\ override' = IF ~Falsy(tool.klass) /\ tool.klass # tool.old_klass
                      /\ tool.klass # Default
                   THEN [t \in DOMAIN override \cup {tool.tenant} |->
                            IF t = tool.tenant THEN tool.klass ELSE override[t]]
                   ELSE override
    /\ UNCHANGED <<midware_limits, pc, environ, klass, buckets, limits, actions,
                   observed, autoprov, admin, routeVars, flt, procs, fresh>>

\* The caller of _limit_class is done with the result
LimitClassReturn ==
    /\ tool.pc = "returned"
    /\ tool' = NoTool
    /\ UNCHANGED <<preVars, routeVars, flt, procs, fresh, override>>

-----------------------------------------------------------------------------
(* KeystoneClassLimit *)

V11 == <<"/", "v", "1", ".", "1">>
V2 == <<"/", "v", "2">>

\* Mutant of Route: the version is matched without the following '/'
Route_NoSeparator(uri) ==
    IF StartsWith(uri, V11) THEN Drop(uri, 5)
    ELSE IF StartsWith(uri, V2) THEN Drop(uri, 3)
    ELSE uri

\* KeystoneClassLimit.route (route_args is not used)
Route(uri) ==
    IF StartsWith(uri, V11 \o <<"/">>) THEN Drop(uri, 5)
    ELSE IF StartsWith(uri, V2 \o <<"/">>) THEN Drop(uri, 3)
    ELSE uri

MaxPieces == 3

\* The URIs route is called with: up to MaxPieces pieces
Pieces == {V11, V2, <<"/", "s">>, <<"/">>, <<"x">>}
Uris == UNION {{Flatten(ps) : ps \in [1..n -> Pieces]} : n \in 0..MaxPieces}

RouteCall ==
    /\ \E uri \in Uris :
        /\ route_uri' = uri
        /\ route_result' = Route(uri)
    /\ UNCHANGED <<preVars, flt, concVars>>

\* Mutant of Filter: the user id is attached before the rule is matched
Filter_AttachesFirst(self_rate_class, env, params) ==
    LET attached == IF "turnstile.keystone.user_id" \in DOMAIN env
                    THEN [k \in DOMAIN params \cup {"userid"} |->
                            IF k = "userid" THEN env["turnstile.keystone.user_id"]
                            ELSE params[k]]
                    ELSE params
    IN  [defer |-> \/ "turnstile.keystone.user_id" \notin DOMAIN env
                   \/ "turnstile.keystone.limitclass" \notin DOMAIN env
                   \/ self_rate_class # env["turnstile.keystone.limitclass"],
         environ |-> env, params |-> attached]

\* KeystoneClassLimit.filter of a rule with rate_class self_rate_class:
\* whether DeferLimit was raised, and environ and params after the call
Filter(self_rate_class, env, params) ==
    IF \/ "turnstile.keystone.user_id" \notin DOMAIN env
       \/ "turnstile.keystone.limitclass" \notin DOMAIN env
       \/ self_rate_class # env["turnstile.keystone.limitclass"]
    THEN [defer |-> TRUE, environ |-> env, params |-> params]
    ELSE [defer |-> FALSE, environ |-> env,
          params |-> [k \in DOMAIN params \cup {"userid"} |->
                        IF k = "userid" THEN env["turnstile.keystone.user_id"]
                        ELSE params[k]]]

FilterClasses == {"lim_class", "spam", IpClass}
FilterUsers == {"user1", "user2"}

\* The environments filter is called with: each of the two keys present or not
FilterEnvs ==
    { [k \in {"REQUEST_METHOD"} |-> "GET"] @@ u @@ c :
        u \in {[k \in {} |-> ""]} \cup
              {[k \in {"turnstile.keystone.user_id"} |-> v] : v \in FilterUsers},
        c \in {[k \in {} |-> ""]} \cup
              {[k \in {"turnstile.keystone.limitclass"} |-> v] : v \in FilterClasses} }

\* The params filter is called with
FilterParams ==
    { [k \in {} |-> ""], [k \in {"userid"} |-> "old"], [k \in {"tenant"} |-> "t"],
      [k \in {"userid", "tenant"} |-> "old"] }

FilterCall ==
    /\ \E rc \in FilterClasses, env \in FilterEnvs, params \in FilterParams :
        flt' = [rate_class |-> rc, environ |-> env, params |-> params,
                called |-> TRUE, result |-> Filter(rc, env, params)]
    /\ UNCHANGED <<preVars, routeVars, concVars>>

-----------------------------------------------------------------------------
(* Specifications *)

\* The stores: each principal with or without a class, each bucket key
\* with or without a payload
Stores ==
    { cls @@ bks :
        cls \in UNION {[D -> Classes] : D \in SUBSET {ClassKey(p) : p \in Principals}},
        bks \in UNION {[D -> Payloads] : D \in SUBSET BucketKeys} }

NoFilter == [rate_class |-> None, environ |-> <<>>, params |-> <<>>, called |-> FALSE,
             result |-> [defer |-> FALSE, environ |-> <<>>, params |-> <<>>]]

InitRequest ==
    /\ pc = "idle"
    /\ environ = <<>>
    /\ klass = None
    /\ buckets = <<>>
    /\ limits = <<>>
    /\ actions = <<>>
    /\ observed = NoObservation
    /\ autoprov = {}
    /\ admin = NoAdmin

InitOther ==
    /\ route_uri = <<>>
    /\ route_result = <<>>
    /\ flt = NoFilter

\* No request and no _limit_class call is between two store calls
InitConc ==
    /\ procs = [r \in Requests |-> IdleRequest]
    /\ tool = NoTool
    /\ override = <<>>

Init ==
    /\ db \in Stores
    /\ midware_limits \in Configs
    /\ InitRequest
    /\ InitOther
    /\ InitConc
    /\ fresh = {}

Next == PreprocessStart \/ PreprocessFinish \/ Expire \/ LimitClass \/ Return

Spec == Init /\ [][Next]_vars

InitCalls ==
    /\ db = <<>>
    /\ midware_limits = <<>>
    /\ InitRequest
    /\ InitOther
    /\ InitConc
    /\ fresh = {}

SpecRoute == InitCalls /\ [][RouteCall]_vars

SpecFilter == InitCalls /\ [][FilterCall]_vars

\* The stores of class entries: each principal with or without a class
ClassStores ==
    UNION {[D -> Classes] : D \in SUBSET {ClassKey(p) : p \in Principals}}

InitSteps ==
    /\ db \in ClassStores
    /\ midware_limits = <<>>
    /\ InitRequest
    /\ InitOther
    /\ InitConc
    /\ fresh = {p \in Principals : ClassKey(p) \notin DOMAIN db}

NextRequests ==
    \E r \in Requests : PreprocessGet(r) \/ PreprocessSet(r) \/ PreprocessReturn(r)

\* Concurrent requests, class resolution in two store calls
SpecRequests == InitSteps /\ [][NextRequests]_vars

NextOverride == NextRequests \/ LimitClassGet \/ LimitClassSet \/ LimitClassReturn

\* Concurrent requests and _limit_class calls, each in two store calls
SpecOverride == InitSteps /\ [][NextOverride]_vars

-----------------------------------------------------------------------------
(* Properties of class resolution *)

\* The sets and deletes among store calls
Writes(acts) == SelectSeq(acts, LAMBDA a : a[1] \in {"set", "delete"})

LimitClassKey == "turnstile.keystone.limitclass"
UserIdKey == "turnstile.keystone.user_id"

\* C1: the first request of a principal without a store entry, carrying no
\* class, resolves 'ip-class' and writes exactly set('limit-class:<principal>',
\* 'ip-class'); a later request of that principal, with no administrative
\* operation in between, writes nothing and, carrying no class, resolves the
\* same class.
C1_FirstRequestProvisionsOnce ==
    pc = "done" =>
        /\ (observed.entry = None /\ observed.carried = None) =>
              /\ environ[LimitClassKey] = IpClass
              /\ Writes(actions) = << <<"set", ClassKey(observed.id_ip), IpClass>> >>
              /\ Get(db, ClassKey(observed.id_ip)) = IpClass
        /\ observed.seen =>
              /\ Writes(actions) = <<>>
              /\ observed.carried = None => environ[LimitClassKey] = IpClass

\* A later request, carrying no class, of a principal auto-provisioned before
C1_Witness == pc = "done" /\ observed.seen /\ observed.carried = None

\* C2: a class carried by the request is still the request's class after
\* keystone_preprocess, whatever the store holds for the principal, and the
\* stored mapping is the one the store held, or 'ip-class' if it held none.
C2_CarriedClassKept ==
    (pc = "done" /\ observed.carried # None) =>
        /\ environ[LimitClassKey] = observed.carried
        /\ klass = observed.carried
        /\ Get(db, ClassKey(observed.id_ip)) =
              (IF observed.entry = None THEN IpClass ELSE observed.entry)

\* The store holds a class for the principal that differs from the carried one
C2_Witness ==
    /\ pc = "done"
    /\ observed.carried # None
    /\ observed.entry \notin {None, observed.carried}
    /\ Get(db, ClassKey(observed.id_ip)) # observed.carried

\* C3 as stated: a request that carries a class issues no set and no delete.
C3_CarriedClassNoWrite ==
    (pc = "done" /\ observed.carried # None) => Writes(actions) = <<>>

\* C3 amended: a request that carries a class never deletes and never stores
\* the carried class; with a store entry for the principal the store is left
\* as it was, without one the only write is the auto-provisioning
\* set('limit-class:<principal>', 'ip-class').
C3_CarriedClassOnlyAutoProvisions ==
    [][ /\ (pc = "idle" /\ pc' = "enumerated" /\ observed'.carried # None) =>
            IF observed'.entry = None
            THEN /\ db' = Set(db, ClassKey(observed'.id_ip), IpClass)
                 /\ Writes(actions') = << <<"set", ClassKey(observed'.id_ip), IpClass>> >>
            ELSE /\ db' = db
                 /\ Writes(actions') = <<>>
        /\ (pc = "enumerated" /\ pc' = "done") =>
            /\ db' = db
            /\ Writes(actions') = Writes(actions) ]_vars

\* A request carrying a class, for a principal without an entry, has written
C3_Witness ==
    /\ pc = "done"
    /\ observed.carried # None
    /\ observed.entry = None
    /\ Writes(actions) # <<>>

NoneUser == <<"<", "N", "O", "N", "E", ">">>

\* C4 as stated: when the token lookup finds no token, keystone_preprocess
\* does not raise and the principal key is '<NONE>:' + REMOTE_ADDR.
C4_UnknownTokenCompletes ==
    (pc # "idle" /\ observed.token = "notfound") =>
        /\ pc # "raised"
        /\ UserIdKey \in DOMAIN environ
        /\ environ[UserIdKey] = IdIp(NoneUser, environ["REMOTE_ADDR"])

-----------------------------------------------------------------------------
(* Properties of KeystoneClassLimit *)

\* C5: route removes the leading '/v1.1' of a URI that begins with '/v1.1/',
\* else the leading '/v2' of one that begins with '/v2/', and returns any
\* other URI ('/v1.1' and '/v2' among them) unchanged; one version segment is
\* removed and what is left of a stripped URI begins with '/'.
C5_RouteStripsOneVersion ==
    IF Len(route_uri) > Len(V11) /\ SubSeq(route_uri, 1, Len(V11) + 1) = V11 \o <<"/">>
    THEN V11 \o route_result = route_uri /\ route_result[1] = "/"
    ELSE IF Len(route_uri) > Len(V2) /\ SubSeq(route_uri, 1, Len(V2) + 1) = V2 \o <<"/">>
    THEN V2 \o route_result = route_uri /\ route_result[1] = "/"
    ELSE route_result = route_uri

\* '/v1.1/v2/s' loses '/v1.1' only
C5_Witness ==
    /\ route_uri = V11 \o V2 \o <<"/", "s">>
    /\ route_result = V2 \o <<"/", "s">>

\* C6: filter defers exactly when the environment lacks the user id, or lacks
\* the class, or the rule's rate_class differs from the class; deferring
\* leaves params and environ as they were; otherwise it only sets
\* params['userid'] to the user id and leaves environ as it was.
C6_FilterDefersOrAttaches ==
    flt.called =>
        LET lacks == \/ UserIdKey \notin DOMAIN flt.environ
                     \/ LimitClassKey \notin DOMAIN flt.environ
            differs == ~lacks /\ flt.environ[LimitClassKey] # flt.rate_class
        IN  /\ flt.result.defer <=> (lacks \/ differs)
            /\ flt.result.environ = flt.environ
            /\ flt.result.defer => flt.result.params = flt.params
            /\ ~flt.result.defer =>
                  /\ DOMAIN flt.result.params = DOMAIN flt.params \cup {"userid"}
                  /\ flt.result.params["userid"] = flt.environ[UserIdKey]
                  /\ \A k \in DOMAIN flt.params \ {"userid"} :
                        flt.result.params[k] = flt.params[k]

\* A matching call with other params, and a deferring call on a wrong class
C6_Witness ==
    /\ flt.called
    /\ ~flt.result.defer
    /\ "tenant" \in DOMAIN flt.params
    /\ "userid" \in DOMAIN flt.params
    /\ flt.result.params["userid"] # flt.params["userid"]

-----------------------------------------------------------------------------
(* Properties of the quota-status listing *)

\* The class in force for the request: the carried one, else the stored one,
\* else the auto-provisioned one
EffectiveClass ==
    IF observed.carried # None THEN observed.carried
    ELSE IF observed.entry = None THEN IpClass ELSE observed.entry

\* The rule has no rate_class or the request's class
Listed(rule) == ~HasRateClass(rule) \/ rule.rate_class = EffectiveClass

\* The URIs the rows of each configured rule may show
RuleUrisOf ==
    [rule \in UNION {{c[i] : i \in 1..Len(c)} : c \in Configs} |->
        {Render(Uri(rule))} \cup {Render(VFormat(Uri(rule), Decode(k))) : k \in BucketKeys}]

RuleUris(rule) == RuleUrisOf[rule]

\* The rows of the listing that are the rule's
RowsOf(rule) ==
    LET uris == RuleUris(rule)
    IN  SelectSeq(limits, LAMBDA row : row.URI \in uris)

\* The rule's enumerated keys, in order
KeysOf(rule) == IF rule.uuid \in DOMAIN buckets THEN buckets[rule.uuid] ELSE <<>>

\* The rule's enumerated keys that held a payload at the fetch, in order
LiveOf(rule) == SelectSeq(KeysOf(rule), LAMBDA k : k \in DOMAIN db)

\* The rule's aggregated rows: the last row of each verb
AggregatedRows(rule) ==
    LET rows == RowsOf(rule)
    IN  {rows[j] : j \in {j \in 1..Len(rows) :
                            \A l \in (j + 1)..Len(rows) : rows[l].verb # rows[j].verb}}

\* The verbs of a rule: its own, or the five default ones
VerbList(rule) ==
    IF rule.verbs = <<>> THEN <<"GET", "HEAD", "POST", "PUT", "DELETE">> ELSE rule.verbs

Rules == {midware_limits[i] : i \in 1..Len(midware_limits)}

\* C7: a rule has rows in the listing if and only if it has no rate_class or
\* its rate_class is the request's effective class, and every row is the row
\* of such a rule.
C7_RowsOnlyForMatchingRules ==
    pc = "done" =>
        /\ \A rule \in Rules : (RowsOf(rule) # <<>>) <=> Listed(rule)
        /\ LET uris == UNION {RuleUris(rule) : rule \in {r \in Rules : Listed(r)}}
           IN  \A j \in 1..Len(limits) : limits[j].URI \in uris

\* The carried class decides: a rule of the carried class is listed, a rule of
\* the stored class is not
C7_Witness ==
    /\ pc = "done"
    /\ observed.carried # None
    /\ observed.entry \notin {None, observed.carried}
    /\ \E r1, r2 \in Rules :
          /\ HasRateClass(r1) /\ r1.rate_class = observed.carried /\ RowsOf(r1) # <<>>
          /\ HasRateClass(r2) /\ r2.rate_class = observed.entry /\ RowsOf(r2) = <<>>

\* C8: the aggregated row of a listed rule shows the least remaining count
\* and the latest expiry of the rule's live buckets, or the rule's value and
\* the current time when it has none.
C8_AggregateIsMinAndMax ==
    pc = "done" =>
        \A rule \in {r \in Rules : Listed(r)} :
            LET live == LiveOf(rule)
                rows == AggregatedRows(rule)
            IN  /\ Cardinality({row.verb : row \in rows}) = Len(VerbList(rule))
                /\ \A row \in rows :
                    IF live = <<>>
                    THEN row.remaining = rule.value /\ row.resetTime = observed.time
                    ELSE /\ \A i \in 1..Len(live) :
                              /\ row.remaining <= db[live[i]].messages
                              /\ row.resetTime >= db[live[i]].expire
                         /\ \E i \in 1..Len(live) : row.remaining = db[live[i]].messages
                         /\ \E i \in 1..Len(live) : row.resetTime = db[live[i]].expire

\* The least count and the latest expiry come from different buckets
C8_Witness ==
    /\ pc = "done"
    /\ \E rule \in {r \in Rules : Listed(r)} :
          \E i, j \in 1..Len(LiveOf(rule)) :
              LET a == db[LiveOf(rule)[i]]
                  b == db[LiveOf(rule)[j]]
              IN  /\ a.messages < b.messages
                  /\ a.expire < b.expire
                  /\ \E row \in AggregatedRows(rule) :
                        row.remaining = a.messages /\ row.resetTime = b.expire

\* The bucket index without the keys in gone
IndexWithout(index, gone) ==
    [u \in {u \in DOMAIN index : \E i \in 1..Len(index[u]) : index[u][i] \notin gone} |->
        SelectSeq(index[u], LAMBDA k : k \notin gone)]

\* C9: the listing is the one of a request that never enumerated the keys it
\* found without payload; a rule whose enumerated keys are all gone shows its
\* value as remaining, in one row per verb.
C9_MissingPayloadSkipped ==
    pc = "done" =>
        /\ limits = BuildLimits(midware_limits, klass,
                                IndexWithout(buckets, observed.gone), db, observed.time)
        /\ \A rule \in {r \in Rules : Listed(r)} :
              (KeysOf(rule) # <<>> /\ LiveOf(rule) = <<>>) =>
                  LET rows == RowsOf(rule)
                  IN  /\ Len(rows) = Len(VerbList(rule))
                      /\ \A j \in 1..Len(rows) : rows[j].remaining = rule.value

\* A listed rule with one key gone and one key live: one row per verb, with
\* the live bucket's count
C9_Witness ==
    /\ pc = "done"
    /\ \E rule \in {r \in Rules : Listed(r)} :
          /\ Len(KeysOf(rule)) = 2
          /\ Len(LiveOf(rule)) = 1
          /\ \E i \in 1..2 : KeysOf(rule)[i] \in observed.gone
          /\ Len(RowsOf(rule)) = Len(VerbList(rule))
          /\ RowsOf(rule)[1].remaining = db[LiveOf(rule)[1]].messages

\* C10: a listed rule with verbs V and n live buckets has |V| rows when
\* n <= 1 and |V| * (n + 1) rows when n > 1: per verb, one row for each bucket
\* with that bucket's remaining and expiry, then the aggregated row.
C10_RowsPerVerbAndBucket ==
    pc = "done" =>
        \A rule \in {r \in Rules : Listed(r)} :
            LET V == VerbList(rule)
                live == LiveOf(rule)
                n == Len(live)
                rows == RowsOf(rule)
            IN  IF n <= 1
                THEN /\ Len(rows) = Len(V)
                     /\ \A v \in 1..Len(V) : rows[v].verb = V[v]
                ELSE /\ Len(rows) = Len(V) * (n + 1)
                     /\ \A v \in 1..Len(V) :
                           /\ \A j \in 1..n :
                                 LET row == rows[(v - 1) * (n + 1) + j]
                                 IN  /\ row.verb = V[v]
                                     /\ row.remaining = db[live[j]].messages
                                     /\ row.resetTime = db[live[j]].expire
                           /\ rows[v * (n + 1)].verb = V[v]
                           /\ rows[v * (n + 1)] \in AggregatedRows(rule)

\* A rule with the default verbs and two live buckets of different counts:
\* fifteen rows, the first two with the buckets' own counts
C10_Witness ==
    /\ pc = "done"
    /\ \E rule \in {r \in Rules : Listed(r)} :
          /\ rule.verbs = <<>>
          /\ Len(LiveOf(rule)) = 2
          /\ Len(RowsOf(rule)) = 15
          /\ RowsOf(rule)[1].remaining # RowsOf(rule)[2].remaining
          /\ RowsOf(rule)[1].remaining = db[LiveOf(rule)[1]].messages

-----------------------------------------------------------------------------
(* Properties of _limit_class *)

\* The class in force for a tenant in the store d, as _limit_class reports it
InForce(d, tenant) ==
    IF ClassKey(tenant) \in DOMAIN d THEN d[ClassKey(tenant)] ELSE "default"

\* C11: _limit_class returns the class in force before the call (the stored
\* value, 'default' without an entry); when klass is given and differs from
\* it, the call is one get and one delete of the tenant's entry (klass is
\* 'default') or one get and one set of it to klass; otherwise the call is
\* one get and the store is unchanged
C11_LimitClassReportsAndUpdates ==
    [][(pc = "idle" /\ pc' = "returned") =>
        LET tenant == admin'.tenant
            k == admin'.klass
            key == ClassKey(tenant)
            prev == InForce(db, tenant)
        IN  /\ admin'.result = prev
            /\ IF k # None /\ k # prev
               THEN IF k = "default"
                    THEN /\ admin'.actions = << <<"get", key>>, <<"delete", key>> >>
                         /\ db' = [x \in DOMAIN db \ {key} |-> db[x]]
                    ELSE /\ admin'.actions = << <<"get", key>>, <<"set", key, k>> >>
                         /\ DOMAIN db' = DOMAIN db \cup {key}
                         /\ db'[key] = k
                         /\ \A x \in DOMAIN db \ {key} : db'[x] = db[x]
               ELSE /\ admin'.actions = << <<"get", key>> >>
                    /\ db' = db]_vars

\* A tenant with an entry was reset to 'default': the entry is gone
C11_Witness ==
    /\ pc = "returned"
    /\ admin.klass = "default"
    /\ admin.before \in Classes
    /\ admin.result = admin.before
    /\ ClassKey(admin.tenant) \notin DOMAIN db

\* The class keystone_preprocess resolves and stores for a principal
\* without an entry
Materialized(id_ip) == ResolveClass(<<>>, <<>>, id_ip).klass

\* C15: for a tenant without an entry, _limit_class reports the class
\* keystone_preprocess resolves and stores for it, and a _limit_class call
\* that sets a tenant to that class leaves the tenant without an entry
C15_ImplicitDefaultAgrees ==
    pc = "returned" =>
        /\ admin.before = None => admin.result = Materialized(admin.tenant)
        /\ admin.klass = Materialized(admin.tenant) =>
              ClassKey(admin.tenant) \notin DOMAIN db

-----------------------------------------------------------------------------
(* Properties of the interleaved store calls *)

\* C12: with requests of a principal that had no entry running concurrently,
\* their get (line 132) and set (lines 135-137) interleaved in any order,
\* every request that has resolved its class holds 'ip-class', every change
\* of the principal's entry writes 'ip-class', and the entry holds 'ip-class'
\* from the first resolved request on (so also when all have finished)
C12_ConcurrentFirstRequestsAgree ==
    [][\A p \in fresh :
        /\ \A r \in Requests :
              procs'[r].pc = "resolved" /\ procs'[r].id_ip = p =>
                  /\ procs'[r].klass = "ip-class"
                  /\ Get(db', ClassKey(p)) = "ip-class"
        /\ Get(db', ClassKey(p)) # Get(db, ClassKey(p)) =>
              Get(db', ClassKey(p)) = "ip-class"]_vars

\* Two requests of one unseen principal both read no entry and both wrote
C12_Witness ==
    \E r1, r2 \in Requests :
        /\ r1 # r2
        /\ procs[r1].pc = "resolved" /\ procs[r2].pc = "resolved"
        /\ procs[r1].id_ip = procs[r2].id_ip
        /\ procs[r1].id_ip \in fresh
        /\ procs[r1].got = None /\ procs[r2].got = None
        /\ Get(db, ClassKey(procs[r1].id_ip)) = "ip-class"

\* C14: under every interleaving of the requests' get and set with the
\* get and set of _limit_class, a class other than 'default' that a
\* completed _limit_class call has set for a tenant is the tenant's entry
\* until the next _limit_class call for that tenant begins
C14_OverrideKept ==
    \A t \in DOMAIN override : Get(db, ClassKey(t)) = override[t]

-----------------------------------------------------------------------------
(* The request environment *)

\* C13: whatever the rules and the buckets, the environment of a request
\* that keystone_preprocess has taken differs from the environment it
\* received only in 'turnstile.keystone.user_id', set to the principal key,
\* and in 'turnstile.keystone.limitclass', added when the request did not
\* carry it: every other key keeps its value, a carried class keeps its
\* value, no other key is added and none is removed.  A request that
\* keystone_preprocess left by an exception has its environment as received.
C13_EnvironFrame ==
    LET request == observed.request
    IN  /\ pc \in {"enumerated", "done"} =>
            /\ DOMAIN environ = DOMAIN request \cup {UserIdKey, LimitClassKey}
            /\ environ[UserIdKey] = observed.id_ip
            /\ \A k \in DOMAIN request \ {UserIdKey} : environ[k] = request[k]
        /\ pc = "raised" => environ = request

\* A request with parameters and a carried class went through the listing
\* of a rule with live buckets
C13_Witness ==
    /\ pc = "done"
    /\ limits # <<>>
    /\ observed.gone = {}
    /\ "openstack.params" \in DOMAIN observed.request
    /\ LimitClassKey \in DOMAIN observed.request
    /\ UserIdKey \notin DOMAIN observed.request
    /\ environ[UserIdKey] = observed.id_ip

-----------------------------------------------------------------------------
(* Buckets and rules *)

\* The rule-identity part of a bucket key: the text after 'bucket:' up to
\* the first '/', or to the end of a key without '/'
RuleIdentity(key) ==
    LET rest == SubSeq(key, Len(BucketPrefix) + 1, Len(key))
        n == CHOOSE n \in 0..Len(rest) :
                /\ \A i \in 1..n : rest[i] # "/"
                /\ n = Len(rest) \/ rest[n + 1] = "/"
    IN  SubSeq(rest, 1, n)

\* The keys the request enumerated whose rule-identity part is the rule's
\* uuid, by way of the bucket keys of each uuid
OwnKeysOf ==
    [uuid \in {UuidA, UuidAB} |-> {k \in BucketKeys : RuleIdentity(k) = uuid}]

OwnKeys(rule) == observed.keys \cap OwnKeysOf[rule.uuid]

\* The (params, bucket) pairs of the keys, in the given order
PairsOf(keys) ==
    [i \in 1..Len(keys) |->
        [params |-> Decode(keys[i]),
         bucket |-> [messages |-> db[keys[i]].messages, expire |-> db[keys[i]].expire]]]

\* C16: the keys indexed for a rule are exactly the enumerated 'bucket:' keys
\* whose rule-identity part equals the rule's uuid, and the rows of a listed
\* rule are those of its own keys that still hold a payload, whatever the
\* buckets of rules with another uuid are, a uuid that is a proper prefix of
\* the rule's uuid or has it as a proper prefix included
C16_BucketsByRuleIdentity ==
    /\ pc \in {"enumerated", "done"} =>
          \A rule \in Rules :
              {KeysOf(rule)[i] : i \in 1..Len(KeysOf(rule))} = OwnKeys(rule)
    /\ pc = "done" =>
          \A rule \in {r \in Rules : Listed(r)} :
              \E order \in Perms(OwnKeys(rule) \cap DOMAIN db) :
                  RowsOf(rule) = RuleRows(rule, PairsOf(order), observed.time)

\* Two listed rules, the uuid of one a proper prefix of the other's, each
\* with one live bucket, the two payloads different: each rule shows its own
C16_Witness ==
    /\ pc = "done"
    /\ \E r1, r2 \in {r \in Rules : Listed(r)} :
          /\ r1.uuid # r2.uuid
          /\ StartsWith(r2.uuid, r1.uuid)
          /\ Len(LiveOf(r1)) = 1 /\ Len(LiveOf(r2)) = 1
          /\ db[LiveOf(r1)[1]] # db[LiveOf(r2)[1]]
          /\ RowsOf(r1)[1].remaining = db[LiveOf(r1)[1]].messages
          /\ RowsOf(r2)[1].remaining = db[LiveOf(r2)[1]].messages

====
